---- MODULE Spec2Model ----
(***************************************************************************)
(* Model of tourist_website.py: the memoized CSV loader load_data() and    *)
(* the filter evaluation of main().  Text is modelled character by         *)
(* character: a string is a sequence of one-character strings, so that     *)
(* header slugging, NA detection, numeric coercion and pattern search are  *)
(* computed the way the program computes them.                             *)
(***************************************************************************)
EXTENDS Integers, Sequences, FiniteSets, TLC

VARIABLES
    file,     \* destinations.csv as it is on disk right now
    cache,    \* the st.cache_data entry of load_data (no arguments: one entry)
    reads,    \* number of pd.read_csv calls made by this process
    runs,     \* number of completed script runs (calls of main)
    result,   \* what load_data() returned to main in the latest run
    query,    \* search_query of the latest run
    region,   \* selected_state of the latest run
    view      \* filtered_df of the latest run, or the exception main raised

vars == <<file, cache, reads, runs, result, query, region, view>>

(***************************************************************************)
(* Characters and strings                                                  *)
(***************************************************************************)
UpperChars == <<"A", "B", "C", "D", "E", "F", "G", "H", "I", "J", "K", "L", "M", "N", "O", "P", "Q", "R", "S", "T", "U", "V", "W", "X", "Y", "Z">>
LowerChars == <<"a", "b", "c", "d", "e", "f", "g", "h", "i", "j", "k", "l", "m", "n", "o", "p", "q", "r", "s", "t", "u", "v", "w", "x", "y", "z">>
DigitChars == <<"0", "1", "2", "3", "4", "5", "6", "7", "8", "9">>

\* str.lower() on one character
ToLower(c) ==
    IF \E i \in 1..Len(UpperChars) : UpperChars[i] = c
    THEN LowerChars[CHOOSE i \in 1..Len(UpperChars) : UpperChars[i] = c]
    ELSE c

Lower(s) == [i \in 1..Len(s) |-> ToLower(s[i])]

RECURSIVE LStrip(_)
LStrip(s) == IF s # << >> /\ Head(s) = " " THEN LStrip(Tail(s)) ELSE s

RECURSIVE RStrip(_)
RStrip(s) ==
    IF s # << >> /\ s[Len(s)] = " " THEN RStrip(SubSeq(s, 1, Len(s) - 1)) ELSE s

\* str.strip()
Strip(s) == RStrip(LStrip(s))

\* str.replace(' ', '_')
ReplaceSpaces(s) == [i \in 1..Len(s) |-> IF s[i] = " " THEN "_" ELSE s[i]]

\* line 57: str(c).strip().lower().replace(' ', '_')
Slug(c) == ReplaceSpaces(Lower(Strip(c)))

Range(s) == {s[i] : i \in 1..Len(s)}

(***************************************************************************)
(* Cells of a DataFrame                                                    *)
(***************************************************************************)
NaN == [t |-> "nan", s |-> << >>, m |-> 0, e |-> 0]
Str(s) == [t |-> "str", s |-> s, m |-> 0, e |-> 0]
Num(m, e) == [t |-> "num", s |-> << >>, m |-> m, e |-> e]

IsDigit(c) == \E i \in 1..Len(DigitChars) : DigitChars[i] = c
DigitValue(c) == (CHOOSE i \in 1..Len(DigitChars) : DigitChars[i] = c) - 1

RECURSIVE DigitsValue(_)
DigitsValue(s) ==
    IF s = << >> THEN 0
    ELSE 10 * DigitsValue(SubSeq(s, 1, Len(s) - 1)) + DigitValue(s[Len(s)])

\* the decimal literals float() accepts over the model's alphabet:
\* [-]digits[.digits] and [-].digits, at least one digit
IsNumeric(s) ==
    LET u == IF s # << >> /\ Head(s) = "-" THEN Tail(s) ELSE s
        dots == {i \in 1..Len(u) : u[i] = "."}
    IN  /\ u # << >>
        /\ \A i \in 1..Len(u) : IsDigit(u[i]) \/ u[i] = "."
        /\ Cardinality(dots) <= 1
        /\ \E i \in 1..Len(u) : IsDigit(u[i])

RECURSIVE Normal(_, _)
Normal(m, e) == IF e > 0 /\ m % 10 = 0 THEN Normal(m \div 10, e - 1) ELSE Num(m, e)

\* the float a numeric literal denotes: mantissa m and e decimals, m * 10^-e,
\* without trailing zero decimals ("27.50" and "27.5" are the same float)
ParseFloat(s) ==
    LET neg == Head(s) = "-"
        u == IF neg THEN Tail(s) ELSE s
        digits == SelectSeq(u, IsDigit)
        dot == IF \E i \in 1..Len(u) : u[i] = "."
               THEN CHOOSE i \in 1..Len(u) : u[i] = "." ELSE Len(u) + 1
        mag == DigitsValue(digits)
        n == Normal(mag, Len(u) + 1 - dot - (IF dot <= Len(u) THEN 1 ELSE 0))
    IN  Num(IF neg THEN 0 - n.m ELSE n.m, n.e)

(***************************************************************************)
(* pd.read_csv('destinations.csv', encoding='utf-8-sig')                   *)
(***************************************************************************)
\* among the default na_values of read_csv: the empty cell and these spellings
NaValues == { << >>, <<"N", "A">>, <<"N", "a", "N">>, <<"n", "a", "n">>, <<"n", "u", "l", "l">>, <<"N", "U", "L", "L">> }

NoDf == [columns |-> << >>, dtypes |-> << >>, index |-> << >>, data |-> << >>]

\* a repeated header text h becomes h.1, h.2, ... (mangle_dupe_cols)
Mangle(header) ==
    [i \in 1..Len(header) |->
        LET k == Cardinality({j \in 1..(i - 1) : header[j] = header[i]})
        IN  IF k = 0 THEN header[i] ELSE header[i] \o <<".", DigitChars[k + 1]>>]

\* a short row is padded with missing cells
RawCell(row, j) == IF j <= Len(row) THEN row[j] ELSE << >>

\* dtype inference per column: no rows gives object; a column whose cells are
\* all missing or numeric is parsed as numbers; anything else stays text
ColumnIsNumeric(rows, j) ==
    /\ rows # << >>
    /\ \A i \in 1..Len(rows) :
          RawCell(rows[i], j) \in NaValues \/ IsNumeric(RawCell(rows[i], j))

ParseCell(raw, numeric) ==
    IF raw \in NaValues THEN NaN
    ELSE IF numeric THEN ParseFloat(raw) ELSE Str(raw)

ParseCsv(header, rows) ==
    [columns |-> Mangle(header),
     dtypes |-> [j \in 1..Len(header) |->
                    IF ColumnIsNumeric(rows, j) THEN "float" ELSE "object"],
     index |-> [i \in 1..Len(rows) |-> i - 1],
     data |-> [i \in 1..Len(rows) |->
                 [j \in 1..Len(header) |->
                     ParseCell(RawCell(rows[i], j), ColumnIsNumeric(rows, j))]]]

\* what the call yields: a DataFrame, or the exception it raises
ReadCsv(f) ==
    CASE f.kind = "absent" -> [exc |-> "FileNotFoundError", df |-> NoDf]
      [] f.kind = "empty" -> [exc |-> "EmptyDataError", df |-> NoDf]
      [] f.kind = "ragged" -> [exc |-> "ParserError", df |-> NoDf]
      [] f.kind = "binary" -> [exc |-> "UnicodeDecodeError", df |-> NoDf]
      [] OTHER -> [exc |-> "none", df |-> ParseCsv(f.header, f.rows)]

(***************************************************************************)
(* load_data(): header normalisation and synonym resolution                *)
(***************************************************************************)
\* line 61-69: the synonym table, in the dict's insertion order
Canonicals ==
    <<"name", "state", "description", "popular_attractions", "image_url",
      "latitude", "longitude">>

\* the canonical names as column labels
Label(c) ==
    CASE c = "name" -> <<"n", "a", "m", "e">>
      [] c = "state" -> <<"s", "t", "a", "t", "e">>
      [] c = "description" -> <<"d", "e", "s", "c", "r", "i", "p", "t", "i", "o", "n">>
      [] c = "popular_attractions" -> <<"p", "o", "p", "u", "l", "a", "r", "_", "a", "t", "t", "r", "a", "c", "t", "i", "o", "n", "s">>
      [] c = "image_url" -> <<"i", "m", "a", "g", "e", "_", "u", "r", "l">>
      [] c = "latitude" -> <<"l", "a", "t", "i", "t", "u", "d", "e">>
      [] c = "longitude" -> <<"l", "o", "n", "g", "i", "t", "u", "d", "e">>

synonyms(c) ==
    CASE c = "name" ->
            <<<<"n", "a", "m", "e">>, <<"d", "e", "s", "t", "i", "n", "a", "t", "i", "o", "n">>, <<"p", "l", "a", "c", "e">>, <<"t", "i", "t", "l", "e">>, <<"l", "o", "c", "a", "t", "i", "o", "n">>>>
      [] c = "state" -> <<<<"s", "t", "a", "t", "e">>, <<"r", "e", "g", "i", "o", "n">>, <<"p", "r", "o", "v", "i", "n", "c", "e">>>>
      [] c = "description" ->
            <<<<"d", "e", "s", "c", "r", "i", "p", "t", "i", "o", "n">>, <<"d", "e", "s", "c">>, <<"d", "e", "t", "a", "i", "l", "s">>, <<"a", "b", "o", "u", "t">>>>
      [] c = "popular_attractions" ->
            <<<<"p", "o", "p", "u", "l", "a", "r", "_", "a", "t", "t", "r", "a", "c", "t", "i", "o", "n", "s">>, <<"a", "t", "t", "r", "a", "c", "t", "i", "o", "n", "s">>, <<"p", "o", "p", "u", "l", "a", "r", "_", "a", "t", "t", "r", "a", "c", "t", "i", "o", "n">>,
              <<"a", "t", "t", "r", "a", "c", "t", "i", "o", "n">>>>
      [] c = "image_url" ->
            <<<<"i", "m", "a", "g", "e", "_", "u", "r", "l">>, <<"i", "m", "a", "g", "e">>, <<"i", "m", "a", "g", "e", "_", "l", "i", "n", "k">>, <<"i", "m", "a", "g", "e", "u", "r", "l">>, <<"p", "h", "o", "t", "o">>,
              <<"p", "h", "o", "t", "o", "_", "u", "r", "l">>>>
      [] c = "latitude" -> <<<<"l", "a", "t", "i", "t", "u", "d", "e">>, <<"l", "a", "t">>>>
      [] c = "longitude" -> <<<<"l", "o", "n", "g", "i", "t", "u", "d", "e">>, <<"l", "o", "n">>, <<"l", "o", "n", "g">>, <<"l", "n", "g">>>>

\* line 85
required_columns ==
    <<"name", "state", "description", "popular_attractions", "image_url">>

\* lines 56-58: every column label becomes its slug
NormalizeColumns(df) ==
    [df EXCEPT !.columns = [j \in 1..Len(df.columns) |-> Slug(df.columns[j])]]

\* lines 74-77: the first option that is a column label; 0 when there is none
FirstOption(options, columns) ==
    IF \E k \in 1..Len(options) : options[k] \in Range(columns)
    THEN CHOOSE k \in 1..Len(options) :
            /\ options[k] \in Range(columns)
            /\ \A l \in 1..(k - 1) : options[l] \notin Range(columns)
    ELSE 0

\* lines 72-77: found, as canonical -> index of the option found (0: not found)
Found(columns) ==
    [c \in Range(Canonicals) |-> FirstOption(synonyms(c), columns)]

\* lines 80-82: rename_map sends the found option of k to k; rename relabels
\* every column whose label is a key of the map
RenameLabel(label, found) ==
    LET keys == {c \in DOMAIN found :
                    found[c] > 0 /\ synonyms(c)[found[c]] = label}
    IN  IF keys = {} THEN label ELSE Label(CHOOSE c \in keys : TRUE)

RenameFound(df) ==
    LET found == Found(df.columns)
    IN  [df EXCEPT !.columns =
            [j \in 1..Len(df.columns) |-> RenameLabel(df.columns[j], found)]]

\* a check that also demands the coordinate columns
MissingWithCoordinates(df) ==
    SelectSeq(Canonicals, LAMBDA c : Label(c) \notin Range(df.columns))

\* line 86
Missing(df) ==
    SelectSeq(required_columns, LAMBDA c : Label(c) \notin Range(df.columns))

(***************************************************************************)
(* load_data(): row dropping and coordinate coercion                       *)
(***************************************************************************)
\* positions of the columns labelled l
Positions(df, l) == {j \in 1..Len(df.columns) : df.columns[j] = l}

\* boolean row selection: the rows at the positions in keep, in table order,
\* each with its index label
KeepRows(df, keep) ==
    LET pos == SelectSeq([i \in 1..Len(df.data) |-> i], LAMBDA i : i \in keep)
    IN  [df EXCEPT !.index = [k \in 1..Len(pos) |-> df.index[pos[k]]],
                   !.data = [k \in 1..Len(pos) |-> df.data[pos[k]]]]

\* line 98: df.dropna(subset=['name', 'state']) keeps the rows with no NaN in
\* any column labelled name or state
DropNa(df) ==
    LET subset == Positions(df, <<"n", "a", "m", "e">>) \cup Positions(df, <<"s", "t", "a", "t", "e">>)
    IN  KeepRows(df, {i \in 1..Len(df.data) :
                         \A j \in subset : df.data[i][j] # NaN})

\* pd.to_numeric(..., errors='coerce') on one cell
ToNumericCell(cell) ==
    IF cell.t = "str"
    THEN IF IsNumeric(cell.s) THEN ParseFloat(cell.s) ELSE NaN
    ELSE cell

\* line 103 for one coord: df[coord] = pd.to_numeric(df[coord], errors='coerce')
CoerceColumn(df, l) ==
    [df EXCEPT !.dtypes = [j \in 1..Len(df.columns) |->
                              IF df.columns[j] = l THEN "float" ELSE df.dtypes[j]],
               !.data = [i \in 1..Len(df.data) |->
                           [j \in 1..Len(df.columns) |->
                               IF df.columns[j] = l
                               THEN ToNumericCell(df.data[i][j])
                               ELSE df.data[i][j]]]]

\* lines 101-103: when two columns carry the label, df[coord] is a DataFrame
\* and pd.to_numeric raises TypeError
CoerceCoord(r, l) ==
    IF r.exc # "none" \/ Positions(r.df, l) = {} THEN r
    ELSE IF Cardinality(Positions(r.df, l)) > 1
         THEN [exc |-> "TypeError", df |-> NoDf]
         ELSE [exc |-> "none", df |-> CoerceColumn(r.df, l)]

CoerceCoords(df) ==
    CoerceCoord(CoerceCoord([exc |-> "none", df |-> df], <<"l", "a", "t", "i", "t", "u", "d", "e">>),
                <<"l", "o", "n", "g", "i", "t", "u", "d", "e">>)

(***************************************************************************)
(* load_data(): outcomes                                                   *)
(***************************************************************************)
\* What a call of load_data leaves behind: the value returned (a DataFrame
\* when kind = "Table", None otherwise), the st.error text it showed with the
\* lists formatted into it, and whether an exception left the function.
Outcome(kind, df, msg, missing, available, escaped) ==
    [kind |-> kind, df |-> df, msg |-> msg, missing |-> missing,
     available |-> available, escaped |-> escaped]

Table(df) == Outcome("Table", df, "", << >>, << >>, FALSE)

\* line 122 not reached yet: load_data has returned nothing
NoResult == Outcome("none", NoDf, "", << >>, << >>, FALSE)

\* lines 88-95
MissingColumns(missing, available) ==
    Outcome("MissingColumns", NoDf,
            "Error: Required column(s) not found in CSV file: ",
            missing, available, FALSE)

\* lines 107-109
NotFound ==
    Outcome("NotFound", NoDf,
            "destinations.csv not found. Please place destinations.csv in the app directory.",
            << >>, << >>, FALSE)

\* lines 110-112
EmptyOrInvalid ==
    Outcome("EmptyOrInvalid", NoDf,
            "destinations.csv is empty or invalid. Please check the file.",
            << >>, << >>, FALSE)

\* lines 113-115
Unknown == Outcome("Unknown", NoDf, "Error loading data: ", << >>, << >>, FALSE)

\* an exception no except clause catches leaves load_data
Escaped(exc) == Outcome(exc, NoDf, "", << >>, << >>, TRUE)

\* The try block yields a returned outcome or a raised exception.
Returns(out) == [exc |-> "none", ret |-> out]
Raises(exc) == [exc |-> exc, ret |-> NoResult]

\* line 105: return df, unless the coercion raised
ReturnTable(co) == IF co.exc # "none" THEN Raises(co.exc) ELSE Returns(Table(co.df))

\* lines 88-105, with missing the list of line 86
CheckRequired(df, missing) ==
    IF missing # << >>
    THEN Returns(MissingColumns(missing, df.columns))
    ELSE ReturnTable(CoerceCoords(DropNa(df)))

\* lines 84-105, on the DataFrame with its columns renamed
Validate(df) == CheckRequired(df, Missing(df))

\* lines 55-105, on what read_csv yielded
Normalize(read) ==
    IF read.exc # "none" THEN Raises(read.exc)
    ELSE Validate(RenameFound(NormalizeColumns(read.df)))

\* lines 53-105, the try block
TryBlock(f) == Normalize(ReadCsv(f))

\* the handlers without the final catch-all
ExceptClausesWithoutCatchAll == <<"FileNotFoundError", "EmptyDataError">>

\* lines 107, 110, 113: the except clauses, in order
ExceptClauses == <<"FileNotFoundError", "EmptyDataError", "Exception">>

Catches(clause, exc) == clause = exc \/ clause = "Exception"

Handle(clause) ==
    CASE clause = "FileNotFoundError" -> NotFound
      [] clause = "EmptyDataError" -> EmptyOrInvalid
      [] OTHER -> Unknown

\* lines 42-115: one uncached execution of load_data on the file f
Except(t) ==
    LET hit == {k \in 1..Len(ExceptClauses) : Catches(ExceptClauses[k], t.exc)}
    IN  IF t.exc = "none" THEN t.ret
        ELSE IF hit = {} THEN Escaped(t.exc)
        ELSE Handle(ExceptClauses[CHOOSE k \in hit : \A l \in hit : k <= l])

load_data(f) == Except(TryBlock(f))

(***************************************************************************)
(* @st.cache_data on a function without arguments: one entry, never        *)
(* invalidated; a call that raises stores nothing                          *)
(***************************************************************************)
NoCache == [set |-> FALSE, value |-> NoResult]

\* line 41-42 and line 122: the call load_data() as main sees it
\* a miss whose outcome is not stored
MissNotStored(c, out) == [value |-> out, cache |-> c, read |-> 1]

\* a miss: the function ran and called read_csv; its outcome is stored
Miss(c, out) ==
    [value |-> out,
     cache |-> IF out.escaped THEN c ELSE [set |-> TRUE, value |-> out],
     read |-> 1]

\* a cache that always re-runs the function on the file as it is now
cache_data_rerun(c, f) == Miss(c, load_data(f))

cache_data(c, f) ==
    IF c.set
    THEN [value |-> c.value, cache |-> c, read |-> 0]
    ELSE Miss(c, load_data(f))

(***************************************************************************)
(* main(): filter evaluation                                               *)
(***************************************************************************)
All == Str(<<"A", "l", "l">>)

NoView == [exc |-> "none", df |-> NoDf]

Raised(exc) == [exc |-> exc, df |-> NoDf]

\* the one column labelled l, as the sequence of its cells
Column(df, l) ==
    LET j == CHOOSE j \in Positions(df, l) : TRUE
    IN  [i \in 1..Len(df.data) |-> df.data[i][j]]

\* line 134: ['All'] + sorted(df['state'].unique().tolist()), as a set
StateOptions(df) ==
    IF Cardinality(Positions(df, <<"s", "t", "a", "t", "e">>)) # 1 THEN {All}
    ELSE {All} \cup Range(Column(df, <<"s", "t", "a", "t", "e">>))

\* df[l].str: a label two columns carry selects a DataFrame, which has no
\* .str; a column that is not text refuses the accessor
StrAccessor(df, l) ==
    LET pos == Positions(df, l)
    IN  IF Cardinality(pos) # 1 THEN "AttributeError"
        ELSE IF df.dtypes[CHOOSE j \in pos : TRUE] # "object"
             THEN "AttributeError"
             ELSE "none"

\* the pattern is compiled as a regular expression (regex=True is the
\* default of str.contains); over the model's alphabet "(" never closes
RegexValid(pat) == "(" \notin Range(pat)

\* one pattern character against one text character under re.IGNORECASE
AtomMatches(a, c) == a = "." \/ ToLower(a) = ToLower(c)

\* re.search(pat, text)
Search(pat, text) ==
    \E start \in 1..(Len(text) - Len(pat) + 1) :
        \A k \in 1..Len(pat) : AtomMatches(pat[k], text[start + k - 1])

\* .str.contains(pat, case=False, na=False) on one cell of a text column
Contains(cell, pat) == cell.t = "str" /\ Search(pat, cell.s)

\* df[l].str.contains(search_query, case=False, na=False)
StrContainsOn(df, l, pat, accessor) ==
    IF accessor # "none" THEN [exc |-> accessor, mask |-> {}]
    ELSE IF ~RegexValid(pat) THEN [exc |-> "re.error", mask |-> {}]
    ELSE [exc |-> "none",
          mask |-> {i \in 1..Len(df.data) : Contains(Column(df, l)[i], pat)}]

StrContains(df, l, pat) == StrContainsOn(df, l, pat, StrAccessor(df, l))

\* lines 141-143, read as one expression: the three masks joined by |,
\* evaluated left to right
Or(a, b, c) ==
    IF a.exc # "none" THEN a
    ELSE IF b.exc # "none" THEN b
    ELSE IF c.exc # "none" THEN c
    ELSE [exc |-> "none", mask |-> a.mask \cup b.mask \cup c.mask]

TextMask(df, pat) ==
    Or(StrContains(df, <<"n", "a", "m", "e">>, pat),
       StrContains(df, <<"d", "e", "s", "c", "r", "i", "p", "t", "i", "o", "n">>, pat),
       StrContains(df, <<"p", "o", "p", "u", "l", "a", "r", "_", "a", "t", "t", "r", "a", "c", "t", "i", "o", "n", "s">>, pat))

\* lines 146-147: filtered_df[filtered_df['state'] == selected_state]
StateFilter(fdf, sel) ==
    IF sel = All THEN fdf
    ELSE KeepRows(fdf, {i \in 1..Len(fdf.data) :
                           Column(fdf, <<"s", "t", "a", "t", "e">>)[i] = sel})

\* line 144: filtered_df[mask]
ApplyMask(df, m) ==
    IF m.exc # "none" THEN Raised(m.exc)
    ELSE [exc |-> "none", df |-> KeepRows(df, m.mask)]

\* lines 138-144
TextFilter(df, pat) ==
    IF pat = << >> THEN [exc |-> "none", df |-> df]
    ELSE ApplyMask(df, TextMask(df, pat))

\* the state filter taken from df, losing the text filter
StateFilterOfDf(df, t, sel) ==
    IF t.exc # "none" \/ sel = All THEN t
    ELSE [exc |-> "none", df |-> StateFilter(df, sel)]

\* lines 146-147 after lines 138-144: the state filter narrows filtered_df,
\* which is df narrowed by the text filter
ThenStateFilter(df, t, sel) ==
    IF t.exc # "none" THEN t
    ELSE [exc |-> "none", df |-> StateFilter(t.df, sel)]

\* lines 134-147: filtered_df for a loaded table, or the exception raised
\* (line 134 raises when two columns are labelled state)
Filter(df, pat, sel) ==
    IF Cardinality(Positions(df, <<"s", "t", "a", "t", "e">>)) # 1 THEN Raised("AttributeError")
    ELSE ThenStateFilter(df, TextFilter(df, pat), sel)

(***************************************************************************)
(* Bounds and the inputs explored                                          *)
(***************************************************************************)
MaxRows == 3    \* rows of a file drawn from a pool of rows
MaxRuns == 2    \* script runs of one process

Absent == [kind |-> "absent", header |-> << >>, rows |-> << >>]
EmptyFile == [kind |-> "empty", header |-> << >>, rows |-> << >>]
Ragged == [kind |-> "ragged", header |-> << >>, rows |-> << >>]
Binary == [kind |-> "binary", header |-> << >>, rows |-> << >>]
Csv(header, rows) == [kind |-> "csv", header |-> header, rows |-> rows]

\* a column of a two-row file: its header text and its two cells
Col(h, c1, c2) == [h |-> h, cells |-> <<c1, c2>>]

\* the file with these columns; a file with no column at all is the empty file
FromColumns(cols) ==
    IF cols = << >> THEN EmptyFile
    ELSE Csv([j \in 1..Len(cols) |-> cols[j].h],
             [i \in 1..2 |-> [j \in 1..Len(cols) |-> cols[j].cells[i]]])

\* per canonical field: no column, one synonym in some spelling, two synonyms
\* with the lower priority first, or two spellings of one synonym
NameChoices ==
    { << >>,
      <<Col(<<"N", "a", "m", "e">>, <<"T", "a", "j">>, <<"F", "o", "r", "t">>)>>,
      <<Col(<<"L", "o", "c", "a", "t", "i", "o", "n">>, <<"A", "g", "r", "a">>, <<"J", "a", "i", "p", "u", "r">>), Col(<<" ", "D", "E", "S", "T", "I", "N", "A", "T", "I", "O", "N", " ">>, <<"T", "a", "j">>, <<"F", "o", "r", "t">>)>>,
      <<Col(<<"n", "a", "m", "e">>, <<"T", "a", "j">>, <<"F", "o", "r", "t">>), Col(<<"N", "a", "m", "e", " ">>, <<"A", "g", "r", "a">>, <<>>)>> }
StateChoices ==
    { << >>,
      <<Col(<<" ", "R", "e", "g", "i", "o", "n">>, <<"U", "P">>, <<"R", "J">>)>>,
      <<Col(<<"p", "r", "o", "v", "i", "n", "c", "e">>, <<"n", "o", "r", "t", "h">>, <<"w", "e", "s", "t">>), Col(<<"S", "T", "A", "T", "E">>, <<"U", "P">>, <<"R", "J">>)>> }
DescriptionChoices ==
    { << >>,
      <<Col(<<"A", "b", "o", "u", "t">>, <<"t", "o", "m", "b">>, <<>>)>>,
      <<Col(<<"D", "e", "t", "a", "i", "l", "s">>, <<"m", "a", "r", "b", "l", "e">>, <<"p", "i", "n", "k">>), Col(<<"d", "e", "s", "c">>, <<"t", "o", "m", "b">>, <<"f", "o", "r", "t">>)>> }
AttractionsChoices ==
    { << >>,
      <<Col(<<"P", "o", "p", "u", "l", "a", "r", " ", "A", "t", "t", "r", "a", "c", "t", "i", "o", "n", "s">>, <<"d", "o", "m", "e", ",", " ", "v", "i", "e", "w">>, <<"g", "a", "t", "e">>)>>,
      <<Col(<<"a", "t", "t", "r", "a", "c", "t", "i", "o", "n">>, <<"d", "o", "m", "e">>, <<"g", "a", "t", "e">>), Col(<<"A", "T", "T", "R", "A", "C", "T", "I", "O", "N", "S">>, <<"v", "i", "e", "w">>, <<>>)>> }
ImageChoices ==
    { << >>,
      <<Col(<<"P", "h", "o", "t", "o", "_", "U", "R", "L">>, <<"x", ".", "j", "p", "g">>, <<>>)>>,
      <<Col(<<"i", "m", "a", "g", "e", " ", "l", "i", "n", "k">>, <<"x", ".", "j", "p", "g">>, <<"y", ".", "j", "p", "g">>), Col(<<"I", "m", "a", "g", "e">>, <<"a", ".", "j", "p", "g">>, <<"b", ".", "j", "p", "g">>)>> }
LatitudeChoices ==
    { << >>,
      <<Col(<<"L", "a", "t">>, <<"2", "7", ".", "5", "0">>, <<"a", "b", "c">>)>>,
      <<Col(<<"L", "A", "T", "I", "T", "U", "D", "E">>, <<"2", "7", ".", "5">>, <<>>)>>,
      <<Col(<<"l", "a", "t">>, <<"2", "7", ".", "5">>, <<"2", "6">>), Col(<<" ", "L", "A", "T", " ">>, <<"2", "7", ".", "5">>, <<"a", "b", "c">>)>> }
LongitudeChoices ==
    { << >>,
      <<Col(<<"l", "n", "g">>, <<"7", "8">>, <<"-", "7", ".", "5">>)>>,
      <<Col(<<"L", "o", "n", "g">>, <<"7", "8", ".", "0">>, <<"e", "a", "s", "t">>), Col(<<"l", "o", "n">>, <<"7", "8">>, <<"7", "5">>)>>,
      <<Col(<<"l", "n", "g">>, <<"7", "8">>, <<"7", "5">>), Col(<<"l", "n", "g">>, <<"x">>, <<"y">>)>> }
OtherChoices ==
    { << >>, <<Col(<<"N", "o", "t", "e", "s">>, <<"o", "p", "e", "n">>, <<>>)>> }

HeaderFiles ==
    {Absent, EmptyFile, Ragged, Binary} \cup
    { FromColumns(o \o lo \o n \o s \o d \o a \o i \o la) :
        n \in NameChoices, s \in StateChoices, d \in DescriptionChoices,
        a \in AttractionsChoices, i \in ImageChoices, la \in LatitudeChoices,
        lo \in LongitudeChoices, o \in OtherChoices }

\* rows under the header of a well-formed file
ScenarioHeader ==
    <<<<"D", "e", "s", "t", "i", "n", "a", "t", "i", "o", "n">>, <<"R", "e", "g", "i", "o", "n">>, <<"A", "b", "o", "u", "t">>, <<"A", "t", "t", "r", "a", "c", "t", "i", "o", "n">>, <<"P", "h", "o", "t", "o">>, <<"L", "a", "t">>, <<"L", "n", "g">>>>

SourceRows ==
    { <<n, s, <<"t", "o", "m", "b">>, <<"d", "o", "m", "e">>, <<"x", ".", "j", "p", "g">>, la, <<"7", "8">>>> :
        n \in {<<"T", "a", "j">>, <<>>, <<" ", " ">>, <<"N", "A">>},
        s \in {<<"U", "P">>, <<" ">>},
        la \in {<<"2", "7", ".", "5">>, <<"a", "b", "c">>} }

BrowseRows ==
    { <<<<"T", "a", "j">>, <<"U", "P">>, <<"t", "o", "m", "b">>, <<"d", "o", "m", "e", ",", " ", "v", "i", "e", "w">>, <<"x", ".", "j", "p", "g">>, <<"2", "7", ".", "5">>, <<"7", "8">>>>,
      <<<<"F", "o", "r", "t">>, <<"R", "J">>, <<>>, <<"M", "a", "h", "a", "l">>, <<>>, <<"a", "b", "c">>, <<"7", "5">>>>,
      <<<<"A", "g", "r", "a">>, <<"U", "P">>, <<>>, <<>>, <<"y", ".", "j", "p", "g">>, <<>>, <<>>>>,
      <<<<"7">>, <<"R", "J">>, <<"F", "o", "r", "t">>, <<"T", "a", "j">>, <<>>, <<"2", "6">>, <<"7", "5">>>> }

SeqsUpTo(S, n) == UNION {[1..k -> S] : k \in 0..n}

RowFiles == {Csv(ScenarioHeader, rows) : rows \in SeqsUpTo(SourceRows, MaxRows)}

BrowseFiles == {Csv(ScenarioHeader, rows) : rows \in SeqsUpTo(BrowseRows, MaxRows)}

Queries == { << >>, <<"t", "a", "j">>, <<"F", "O", "R", "T">>, <<"a", ".">>, <<"(">> }

\* the states of destinations.csv a user moves between
EditedFiles ==
    { EmptyFile,
      Csv(ScenarioHeader, << >>),
      Csv(ScenarioHeader, <<CHOOSE r \in BrowseRows : r[1] = <<"T", "a", "j">>>>),
      Csv(ScenarioHeader, <<CHOOSE r \in BrowseRows : r[1] = <<"F", "o", "r", "t">>>>),
      Csv(<<<<"D", "e", "s", "t", "i", "n", "a", "t", "i", "o", "n">>, <<"A", "b", "o", "u", "t">>, <<"A", "t", "t", "r", "a", "c", "t", "i", "o", "n">>, <<"P", "h", "o", "t", "o">>>>,
          <<<<<<"T", "a", "j">>, <<"t", "o", "m", "b">>, <<"d", "o", "m", "e">>, <<"x", ".", "j", "p", "g">>>>>>) }

(***************************************************************************)
(* Actions                                                                 *)
(***************************************************************************)
Start(files) ==
    /\ file \in files
    /\ cache = NoCache
    /\ reads = 0
    /\ runs = 0
    /\ result = NoResult
    /\ query = << >>
    /\ region = All
    /\ view = NoView

\* lines 117-147: one script run, with the widget values the user has set
Run(call, queries) ==
    /\ cache' = call.cache
    /\ reads' = reads + call.read
    /\ result' = call.value
    /\ runs' = runs + 1
    /\ file' = file
    /\ IF call.value.kind # "Table"
       THEN query' = << >> /\ region' = All /\ view' = NoView
       ELSE /\ query' \in queries
            /\ region' \in StateOptions(call.value.df)
            /\ view' = Filter(call.value.df, query', region')

Main(queries) ==
    /\ runs < MaxRuns
    /\ Run(cache_data(cache, file), queries)

\* the user saves another destinations.csv
WriteFile ==
    /\ file' \in EditedFiles \ {file}
    /\ UNCHANGED <<cache, reads, runs, result, query, region, view>>

\* the user removes destinations.csv
DeleteFile ==
    /\ file # Absent
    /\ file' = Absent
    /\ UNCHANGED <<cache, reads, runs, result, query, region, view>>

(***************************************************************************)
(* Specifications                                                          *)
(***************************************************************************)
\* a process whose file changes between runs
Init == Start(EditedFiles \cup {Absent})
Next == Main(Queries) \/ WriteFile \/ DeleteFile
Spec == Init /\ [][Next]_vars

\* one load of every header combination
InitHeaders == Start(HeaderFiles)
NextHeaders == Main({<< >>})
SpecHeaders == InitHeaders /\ [][NextHeaders]_vars

\* one load of every short sequence of source rows
InitRows == Start(RowFiles)
NextRows == Main({<< >>})
SpecRows == InitRows /\ [][NextRows]_vars

\* repeated runs over an unchanged file, every query and region
InitBrowse == Start(BrowseFiles)
NextBrowse == Main(Queries)
SpecBrowse == InitBrowse /\ [][NextBrowse]_vars

(***************************************************************************)
(* Properties                                                              *)
(***************************************************************************)
\* the header slugs of the file as parsed, in file order
ParsedSlugs == [j \in 1..Len(file.header) |-> Slug(Mangle(file.header)[j])]

\* some synonym of the canonical field c is one of the slugs
ResolvesIn(c, slugs) == \E k \in 1..Len(synonyms(c)) : synonyms(c)[k] \in slugs

RequiredFields ==
    {"name", "state", "description", "popular_attractions", "image_url"}

\* the required fields none of whose synonyms is one of the slugs
UnresolvedIn(slugs) == {c \in RequiredFields : ~ResolvesIn(c, slugs)}

\* the column labels a finished load shows: the table's, or the list in the
\* MissingColumns message
ShownColumns ==
    IF result.kind = "Table" THEN result.df.columns ELSE result.available

\* the raw cell means "no value": an NA spelling, or blank once trimmed
Blank(raw) == raw \in NaValues \/ Strip(raw) = << >>

\* C1: after slugging, each canonical field is bound to the first synonym, in
\* priority order, that is a header slug; exactly one source column carries
\* the canonical name afterwards (the one with that slug), and a field with
\* no synonym among the headers names no column.
C1_FirstSynonymOneColumn ==
    (runs >= 1 /\ file.kind = "csv" /\ result.kind \in {"Table", "MissingColumns"}) =>
        LET slugs == ParsedSlugs
            shown == ShownColumns
        IN  \A c \in Range(Canonicals) :
                LET present == {k \in 1..Len(synonyms(c)) :
                                   synonyms(c)[k] \in Range(slugs)}
                    first == CHOOSE k \in present : \A l \in present : k <= l
                    named == {j \in 1..Len(shown) : shown[j] = Label(c)}
                IN  IF present = {} THEN named = {}
                    ELSE /\ Cardinality(named) = 1
                         /\ named = {j \in 1..Len(slugs) :
                                        slugs[j] = synonyms(c)[first]}

\* C2: when some required field has no synonym among the headers, the load
\* ends in MissingColumns without a table and lists exactly the required
\* fields that did not bind; latitude and longitude are never listed, and a
\* file with every required field but no coordinates loads.
C2_MissingExactlyUnbound ==
    (runs >= 1 /\ file.kind = "csv") =>
        LET slugs == Range(ParsedSlugs)
            unresolved == UnresolvedIn(slugs)
        IN  /\ unresolved # {} =>
                  /\ result.kind = "MissingColumns"
                  /\ result.df = NoDf
                  /\ Range(result.missing) = unresolved
                  /\ Len(result.missing) = Cardinality(unresolved)
            /\ unresolved = {} => result.kind # "MissingColumns"
            /\ "latitude" \notin Range(result.missing)
            /\ "longitude" \notin Range(result.missing)
            /\ (unresolved = {} /\ ~ResolvesIn("latitude", slugs)
                  /\ ~ResolvesIn("longitude", slugs))
                  => result.kind = "Table"

C2_Witness ==
    /\ runs >= 1
    /\ file.kind = "csv"
    /\ result.kind = "MissingColumns"
    /\ LET slugs == Range(ParsedSlugs)
       IN  /\ Cardinality(UnresolvedIn(slugs)) = 2
           /\ ~ResolvesIn("latitude", slugs)
           /\ ResolvesIn("name", slugs) /\ <<"n", "a", "m", "e">> \notin slugs

\* C3: the available list of a MissingColumns failure is the list of header
\* slugs as parsed from the file, before any renaming to canonical names.
C3_AvailableIsParsedSlugs ==
    (runs >= 1 /\ result.kind = "MissingColumns") => result.available = ParsedSlugs

\* C4: in a loaded table a source row is absent exactly when its name or its
\* state is null or empty after trimming, and the rows kept are in source
\* order.
C4_BlankRowsDropped ==
    (runs >= 1 /\ result.kind = "Table") =>
        /\ \A i \in 1..Len(file.rows) :
              (i - 1 \notin Range(result.df.index))
                  <=> (Blank(file.rows[i][1]) \/ Blank(file.rows[i][2]))
        /\ \A a, b \in 1..Len(result.df.index) :
              a < b => result.df.index[a] < result.df.index[b]

\* C5: when latitude or longitude is bound (and the required fields are),
\* the load succeeds, every source row with a name and a state is kept, a
\* numeric coordinate cell keeps its value and any other becomes null.
C5_CoordinatesCoerced ==
    (runs >= 1 /\ file.kind = "csv" /\ UnresolvedIn(Range(ParsedSlugs)) = {}
       /\ (ResolvesIn("latitude", Range(ParsedSlugs))
             \/ ResolvesIn("longitude", Range(ParsedSlugs)))) =>
        /\ result.kind = "Table"
        /\ \A i \in 1..Len(file.rows) :
              (\A j \in 1..Len(file.header) :
                  result.df.columns[j] \in {<<"n", "a", "m", "e">>, <<"s", "t", "a", "t", "e">>}
                      => file.rows[i][j] \notin NaValues)
                  => i - 1 \in Range(result.df.index)
        /\ \A r \in 1..Len(result.df.index), j \in 1..Len(file.header) :
              result.df.columns[j] \in {<<"l", "a", "t", "i", "t", "u", "d", "e">>, <<"l", "o", "n", "g", "i", "t", "u", "d", "e">>} =>
                  LET raw == file.rows[result.df.index[r] + 1][j]
                  IN  result.df.data[r][j] =
                          IF IsNumeric(raw) THEN ParseFloat(raw) ELSE NaN

\* the index labels of the rows of a filter result
Rows(v) == Range(v.df.index)

\* C6: the rows of filter(T, Q, R) are exactly the rows that are in both
\* filter(T, Q, "All") and filter(T, "", R), in table order; the combined
\* filter raises exactly when one of the two raises.
C6_FiltersComposeByAnd ==
    (runs >= 1 /\ result.kind = "Table") =>
        LET text == Filter(result.df, query, All)
            state == Filter(result.df, << >>, region)
        IN  /\ (view.exc # "none") <=> (text.exc # "none" \/ state.exc # "none")
            /\ view.exc = "none" =>
                  view.df = KeepRows(result.df,
                                {i \in 1..Len(result.df.index) :
                                    result.df.index[i] \in Rows(text) \cap Rows(state)})

C6_Witness ==
    /\ runs >= 1
    /\ result.kind = "Table"
    /\ query # << >>
    /\ region # All
    /\ view.exc = "none"
    /\ Rows(view) # {}
    /\ Rows(view) # Rows(Filter(result.df, query, All))
    /\ Rows(view) # Rows(Filter(result.df, << >>, region))

\* C7 (as amended): no exception leaves load_data; a finished load returned a
\* table or ended in exactly one failure kind, each with its own message:
\* NotFound exactly for a missing file, EmptyOrInvalid exactly for an empty
\* file, MissingColumns exactly for a parsed file with a required field
\* unresolved, and Unknown for any other failure, among them a file that is
\* not parseable as delimited text.
C7_OneKindPerFailure ==
    runs >= 1 =>
        /\ ~result.escaped
        /\ result.kind \in
              {"Table", "NotFound", "EmptyOrInvalid", "MissingColumns", "Unknown"}
        /\ (result.kind = "Table") <=> (result.df # NoDf)
        /\ (result.kind = "NotFound") <=> (file.kind = "absent")
        /\ (result.kind = "EmptyOrInvalid") <=> (file.kind = "empty")
        /\ (result.kind = "MissingColumns") <=>
              (file.kind = "csv" /\ UnresolvedIn(Range(ParsedSlugs)) # {})
        /\ file.kind \in {"ragged", "binary"} => result.kind = "Unknown"
        /\ result.kind # "Table" =>
              /\ (result.msg = NotFound.msg) <=> (result.kind = "NotFound")
              /\ (result.msg = EmptyOrInvalid.msg) <=> (result.kind = "EmptyOrInvalid")
              /\ (result.msg = Unknown.msg) <=> (result.kind = "Unknown")
              /\ (result.msg = MissingColumns(<< >>, << >>).msg)
                    <=> (result.kind = "MissingColumns")

C7_Witness ==
    /\ runs >= 1
    /\ file.kind = "ragged"
    /\ result.kind = "Unknown"
    /\ result.msg = "Error loading data: "

\* C7 as stated: the same, with EmptyOrInvalid the outcome of every file that
\* is empty or not parseable as delimited text.
C7_AsStated ==
    runs >= 1 =>
        /\ ~result.escaped
        /\ result.kind \in
              {"Table", "NotFound", "EmptyOrInvalid", "MissingColumns", "Unknown"}
        /\ (result.kind = "NotFound") <=> (file.kind = "absent")
        /\ (result.kind = "EmptyOrInvalid") <=> (file.kind \in {"empty", "ragged"})
        /\ (result.kind = "MissingColumns") <=>
              (file.kind = "csv" /\ UnresolvedIn(Range(ParsedSlugs)) # {})

\* C8: a second load of the unchanged file, whatever was filtered in between,
\* returns the table (or failure) a fresh load of the file gives, and the
\* file has been read once.
C8_RepeatedLoadIdentical ==
    runs >= 2 =>
        /\ result = load_data(file)
        /\ cache = [set |-> TRUE, value |-> load_data(file)]
        /\ reads = 1

C8_Witness ==
    /\ runs >= 2
    /\ reads = 1
    /\ result.kind = "Table"
    /\ query # << >>
    /\ view.exc = "none"
    /\ Len(view.df.index) < Len(result.df.index)

\* a row of the table matches when the query, letter case aside, is a
\* substring of its name, description or popular_attractions text
SubstringOf(q, text) ==
    \E start \in 1..(Len(text) - Len(q) + 1) :
        \A k \in 1..Len(q) : ToLower(q[k]) = ToLower(text[start + k - 1])

RowMatches(df, i, q) ==
    \E l \in {<<"n", "a", "m", "e">>, <<"d", "e", "s", "c", "r", "i", "p", "t", "i", "o", "n">>, <<"p", "o", "p", "u", "l", "a", "r", "_", "a", "t", "t", "r", "a", "c", "t", "i", "o", "n", "s">>} :
        \E j \in Positions(df, l) :
            df.data[i][j].t = "str" /\ SubstringOf(q, df.data[i][j].s)

\* C9: with a non-empty query and no region selected, the filter never
\* raises and keeps exactly the rows the query is a case-insensitive
\* substring of (name, description or popular_attractions; null never
\* matches).
C9_SubstringNeverRaises ==
    (runs >= 1 /\ result.kind = "Table" /\ query # << >> /\ region = All) =>
        /\ view.exc = "none"
        /\ view.df = KeepRows(result.df,
                        {i \in 1..Len(result.df.index) :
                            RowMatches(result.df, i, query)})

\* C10: once load_data has run in the process, its outcome is kept: no later
\* step changes the cached outcome or reads the file again, and every later
\* run gets the cached outcome, whatever has become of the file.
C10_FirstOutcomeKept ==
    [][cache.set =>
          /\ cache' = cache
          /\ reads' = reads
          /\ runs' # runs => result' = cache.value]_vars

C10_Witness ==
    /\ runs >= 2
    /\ reads = 1
    /\ result.kind = "NotFound"
    /\ load_data(file).kind = "Table"
====
